---------------------------- MODULE Spec2Model ----------------------------
(***************************************************************************)
(* A model of redis-queue.py: RedisQueue, a deque interface over one redis *)
(* list, and ExclusiveQueue, its variant that keeps a value at most once.  *)
(*                                                                         *)
(* The redis list under self.key is the variable store.  Every redis       *)
(* command is one atomic step of the server; a method that issues several  *)
(* commands (extend, extendleft, and the four overrides of ExclusiveQueue) *)
(* takes one step per command, so callers interleave between them.         *)
(***************************************************************************)
EXTENDS Integers, Sequences, FiniteSets, TLC

(***************************************************************************)
(* Bounds of the model.                                                    *)
(***************************************************************************)
NumCallers == 2        \* concurrent callers (threads or processes)
MaxPushes == 4         \* pushes the store accepts in one behaviour
MaxIter == 3           \* longest iterable handed to extend / extendleft
MaxInit == 3           \* longest list a behaviour may start from
MaxIndex == 2          \* largest index handed to an indexed read or write

Callers == 1..NumCallers
Values == {"a", "b", "c"}   \* the byte strings callers put in the queue
FewValues == {"a", "b"}     \* the same, for specifications with many methods
KEY == "q"             \* self.key
NoTimeout == -1        \* timeout=None
Timeouts == {NoTimeout, 0, 1}

VARIABLES
    store,     \* the redis list under KEY: a sequence of byte strings
    pc,        \* pc[c]: where caller c stands inside a method ("idle": in none)
    frame,     \* frame[c]: the locals of the method caller c is running
    last,      \* the call that completed last (NoCall: none yet)
    pushed,    \* every byte string the store accepted, in the order of the pushes
    popped     \* every byte string a pop command delivered, in that order

vars == <<store, pc, frame, last, pushed, popped>>

(***************************************************************************)
(* Python values that travel between the methods and the redis client.     *)
(***************************************************************************)
PyNone == [t |-> "None"]
PyStr(s) == [t |-> "str", s |-> s]
PyPair(k, s) == [t |-> "tuple", k |-> k, s |-> s]
PyList(l) == [t |-> "list", l |-> l]
PyInt(n) == [t |-> "int", n |-> n]
PyBool(b) == [t |-> "bool", b |-> b]
Raise(e) == [t |-> "raise", e |-> e]

\* The client sends str(value): a byte string as it is, None as "None", a
\* (key, value) tuple as its repr.
encode(v) ==
    CASE v.t = "str" -> v.s
      [] v.t = "None" -> "None"
      [] v.t = "tuple" -> "('" \o v.k \o "', '" \o v.s \o "')"

(***************************************************************************)
(* The list commands of the store, each a function of the list l.          *)
(***************************************************************************)
Front(l) == SubSeq(l, 1, Len(l) - 1)

\* redis list index (0-based, negative from the tail) to a position 1..Len(l),
\* or 0 when it is out of range.
Position(l, i) ==
    LET p == IF i < 0 THEN Len(l) + i + 1 ELSE i + 1
    IN  IF p >= 1 /\ p <= Len(l) THEN p ELSE 0

\* A bug: the value goes to the head.
rpush_at_head(l, v) == <<encode(v)>> \o l

rpush(l, v) == Append(l, encode(v))

\* A bug: the value goes to the tail.
lpush_at_tail(l, v) == Append(l, encode(v))

lpush(l, v) == <<encode(v)>> \o l

\* A bug: the tail is read and left in the list.
rpop_peek(l) ==
    IF l = <<>> THEN [reply |-> PyNone, list |-> l]
    ELSE [reply |-> PyStr(l[Len(l)]), list |-> l]

rpop(l) ==
    IF l = <<>> THEN [reply |-> PyNone, list |-> l]
    ELSE [reply |-> PyStr(l[Len(l)]), list |-> Front(l)]

\* A bug: the element is taken from the tail.
lpop_tail(l) ==
    IF l = <<>> THEN [reply |-> PyNone, list |-> l]
    ELSE [reply |-> PyStr(l[Len(l)]), list |-> Front(l)]

lpop(l) ==
    IF l = <<>> THEN [reply |-> PyNone, list |-> l]
    ELSE [reply |-> PyStr(Head(l)), list |-> Tail(l)]

\* brpop / blpop on a list that holds an element: the reply names the key.
brpop(l) == [reply |-> PyPair(KEY, l[Len(l)]), list |-> Front(l)]

blpop(l) == [reply |-> PyPair(KEY, Head(l)), list |-> Tail(l)]

\* A bug: only the first occurrence goes (num=1).
lrem_first(l, v) ==
    LET hits == {k \in 1..Len(l) : l[k] = encode(v)}
        first == CHOOSE k \in hits : \A j \in hits : k <= j
    IN  IF hits = {} THEN [reply |-> 0, list |-> l]
        ELSE [reply |-> 1, list |-> SubSeq(l, 1, first - 1) \o SubSeq(l, first + 1, Len(l))]

\* lrem(name, value) with the client's default num=0: every occurrence goes.
lrem(l, v) ==
    LET keep(e) == e # encode(v)
    IN  [reply |-> Len(l) - Len(SelectSeq(l, keep)), list |-> SelectSeq(l, keep)]

\* A bug: the tail is popped and never pushed back.
poppush_lost(l) ==
    IF l = <<>> THEN [reply |-> PyNone, list |-> l]
    ELSE [reply |-> PyStr(l[Len(l)]), list |-> Front(l)]

\* poppush(src, dst) with src = dst: RPOPLPUSH, one command.
poppush(l) ==
    IF l = <<>> THEN [reply |-> PyNone, list |-> l]
    ELSE [reply |-> PyStr(l[Len(l)]), list |-> <<l[Len(l)]>> \o Front(l)]

\* A bug: stop is taken as exclusive.
lrange_exclusive(l, start, stop) ==
    LET n == Len(l)
        lo0 == IF start < 0 THEN n + start ELSE start
        hi0 == (IF stop < 0 THEN n + stop ELSE stop) - 1
        lo == IF lo0 < 0 THEN 0 ELSE lo0
        hi == IF hi0 >= n THEN n - 1 ELSE hi0
    IN  IF lo > hi THEN <<>> ELSE SubSeq(l, lo + 1, hi + 1)

lrange(l, start, stop) ==
    LET n == Len(l)
        lo0 == IF start < 0 THEN n + start ELSE start
        hi0 == IF stop < 0 THEN n + stop ELSE stop
        lo == IF lo0 < 0 THEN 0 ELSE lo0
        hi == IF hi0 >= n THEN n - 1 ELSE hi0
    IN  IF lo > hi THEN <<>> ELSE SubSeq(l, lo + 1, hi + 1)

llen(l) == Len(l)

lindex(l, i) == IF Position(l, i) = 0 THEN PyNone ELSE PyStr(l[Position(l, i)])

\* A bug: a negative index is counted from one place too far.
lset_off_by_one(l, i, v) ==
    LET p == IF i < 0 THEN Len(l) + i ELSE i + 1
    IN  IF p < 1 \/ p > Len(l) THEN [ok |-> FALSE, list |-> l]
        ELSE [ok |-> TRUE, list |-> [l EXCEPT ![p] = encode(v)]]

\* lset answers an error (redis.ResponseError) when the index is out of range
\* or the key holds no list.
lset(l, i, v) ==
    IF Position(l, i) = 0 THEN [ok |-> FALSE, list |-> l]
    ELSE [ok |-> TRUE, list |-> [l EXCEPT ![Position(l, i)] = encode(v)]]

delete(l) == <<>>

(***************************************************************************)
(* Bookkeeping of calls.                                                   *)
(***************************************************************************)
NoFrame == [cls |-> "", m |-> "", x |-> "", t |-> NoTimeout, rest |-> <<>>,
            xs |-> <<>>, item |-> PyNone, before |-> <<>>]

\* A completed call: who, which method of which class, its arguments (x a
\* value, i an index, t a timeout, xs an iterable; unused ones at a default),
\* what it returned or raised, and the list when the call began.
Call(c, cls, m, x, i, t, xs, ret, before) ==
    [c |-> c, cls |-> cls, m |-> m, x |-> x, i |-> i, t |-> t, xs |-> xs,
     ret |-> ret, before |-> before]

NoCall == Call(0, "", "", "", 0, NoTimeout, <<>>, PyNone, <<>>)

Idle(c) == pc[c] = "idle"

\* Caller c returns from its method.
Complete(c, call) ==
    /\ pc' = [pc EXCEPT ![c] = "idle"]
    /\ frame' = [frame EXCEPT ![c] = NoFrame]
    /\ last' = (call)

Count(l, v) == Cardinality({k \in 1..Len(l) : l[k] = v})

(***************************************************************************)
(* Pushing.  A caller blocked in brpop / blpop on the (empty) list is      *)
(* handed the pushed element by the server within the push command itself. *)
(***************************************************************************)
CanPush == Len(pushed) < MaxPushes

Waiters == {w \in Callers : pc[w] = "wait"}

\* A bug: the waiter is answered and the element stays in the list.
Served_keeps(l, w) ==
    IF frame[w].m = "pop" THEN [brpop(l) EXCEPT !.list = l] ELSE [blpop(l) EXCEPT !.list = l]

Served(l, w) == IF frame[w].m = "pop" THEN brpop(l) ELSE blpop(l)

\* Where a served waiter resumes: ExclusiveQueue.pop goes on to self.remove(item),
\* RedisQueue.pop only has to return item.
Woken(w) == IF frame[w].cls = "ExclusiveQueue" THEN "remove" ELSE "return"

\* Caller c's push command leaves list l (s is the string it pushed); c goes on
\* at pcC with locals frameC.
PushCmd(c, l, s, pcC, frameC) ==
    /\ CanPush
    /\ pushed' = Append(pushed, s)
    /\ IF Waiters = {}
       THEN /\ store' = l
            /\ popped' = popped
            /\ pc' = [pc EXCEPT ![c] = pcC]
            /\ frame' = [frame EXCEPT ![c] = frameC]
       ELSE \E w \in Waiters :
            /\ store' = Served(l, w).list
            /\ popped' = Append(popped, Served(l, w).reply.s)
            /\ pc' = [pc EXCEPT ![c] = pcC, ![w] = Woken(w)]
            /\ frame' = [frame EXCEPT ![c] = frameC,
                                      ![w] = [frame[w] EXCEPT !.item = Served(l, w).reply]]

Left(m) == m \in {"appendleft", "extendleft"}

(***************************************************************************)
(* RedisQueue.  Methods that ExclusiveQueue inherits take the class of     *)
(* self as cls.                                                            *)
(***************************************************************************)
RedisQueue_append(c, x) ==
    /\ Idle(c)
    /\ PushCmd(c, rpush(store, PyStr(x)), encode(PyStr(x)), "idle", NoFrame)
    /\ last' = (Call(c, "RedisQueue", "append", x, 0, NoTimeout, <<>>, PyNone, store))

RedisQueue_appendleft(c, x) ==
    /\ Idle(c)
    /\ PushCmd(c, lpush(store, PyStr(x)), encode(PyStr(x)), "idle", NoFrame)
    /\ last' = (Call(c, "RedisQueue", "appendleft", x, 0, NoTimeout, <<>>, PyNone, store))

RedisQueue_clear(c, cls) ==
    /\ Idle(c)
    /\ store' = delete(store)
    /\ Complete(c, Call(c, cls, "clear", "", 0, NoTimeout, <<>>, PyNone, store))
    /\ UNCHANGED <<pushed, popped>>

\* extend and extendleft: the loop is entered here and runs one self.append /
\* self.appendleft per step.
ExtendCall(c, cls, m, xs) ==
    /\ Idle(c)
    /\ IF xs = <<>>
       THEN Complete(c, Call(c, cls, m, "", 0, NoTimeout, xs, PyNone, store))
       ELSE /\ pc' = [pc EXCEPT ![c] = "extend"]
            /\ frame' = [frame EXCEPT ![c] = [NoFrame EXCEPT !.cls = cls, !.m = m,
                                              !.rest = xs, !.xs = xs, !.before = store]]
            /\ last' = last
    /\ UNCHANGED <<store, pushed, popped>>

RedisQueue_extend(c, cls, xs) == ExtendCall(c, cls, "extend", xs)

RedisQueue_extendleft(c, cls, xs) == ExtendCall(c, cls, "extendleft", xs)

\* The call record of the method in frame f, returning ret.
FrameCall(c, f, ret) == Call(c, f.cls, f.m, f.x, 0, f.t, f.xs, ret, f.before)

\* A bug: the loop takes the items from the end of the iterable.
RedisQueue_extend_step_backwards(c) ==
    LET f == frame[c]
        item == PyStr(f.rest[Len(f.rest)])
        l == IF Left(f.m) THEN lpush(store, item) ELSE rpush(store, item)
        more == Front(f.rest) # <<>>
    IN  /\ pc[c] = "extend"
        /\ f.cls = "RedisQueue"
        /\ PushCmd(c, l, encode(item),
                   IF more THEN "extend" ELSE "idle",
                   IF more THEN [f EXCEPT !.rest = Front(f.rest)] ELSE NoFrame)
        /\ last' = IF more THEN last ELSE FrameCall(c, f, PyNone)

\* One iteration of the loop when self is a RedisQueue: self.append(item) is
\* one push.
RedisQueue_extend_step(c) ==
    LET f == frame[c]
        item == PyStr(Head(f.rest))
        l == IF Left(f.m) THEN lpush(store, item) ELSE rpush(store, item)
        more == Tail(f.rest) # <<>>
    IN  /\ pc[c] = "extend"
        /\ f.cls = "RedisQueue"
        /\ PushCmd(c, l, encode(item),
                   IF more THEN "extend" ELSE "idle",
                   IF more THEN [f EXCEPT !.rest = Tail(f.rest)] ELSE NoFrame)
        /\ last' = IF more THEN last ELSE FrameCall(c, f, PyNone)

\* Pushes of the running extend / extendleft that the store has accepted.
Done(f) == Len(f.xs) - Len(f.rest)

\* A bug: the error of a push is swallowed and the loop goes on with the next item.
RedisQueue_extend_fails_goes_on(c) ==
    LET f == frame[c]
        more == Tail(f.rest) # <<>>
    IN  /\ pc[c] = "extend"
        /\ f.cls = "RedisQueue"
        /\ IF more
           THEN /\ pc' = pc
                /\ frame' = [frame EXCEPT ![c] = [f EXCEPT !.rest = Tail(f.rest)]]
                /\ last' = last
           ELSE Complete(c, FrameCall(c, f, PyNone))
        /\ UNCHANGED <<store, pushed, popped>>

\* The store fails on the push of self.append(item) / self.appendleft(item)
\* inside the loop: the list is not touched, the error leaves the loop and
\* the method.  The call record keeps in i how many pushes were done.
RedisQueue_extend_fails(c) ==
    LET f == frame[c]
    IN  /\ pc[c] = "extend"
        /\ f.cls = "RedisQueue"
        /\ Complete(c, [FrameCall(c, f, Raise("StoreError")) EXCEPT !.i = Done(f)])
        /\ UNCHANGED <<store, pushed, popped>>

\* The pop command of pop(timeout) / popleft(timeout) on list l, when it
\* answers at once: rpop / lpop without a timeout, brpop / blpop with one.
PopCmd(l, m, t) ==
    IF t = NoTimeout
    THEN (IF m = "pop" THEN rpop(l) ELSE lpop(l))
    ELSE (IF m = "pop" THEN brpop(l) ELSE blpop(l))

Delivered(reply) ==
    IF reply = PyNone THEN popped ELSE Append(popped, reply.s)

\* With a timeout and an empty list the caller blocks in the server.
Blocks(l, t) == t # NoTimeout /\ l = <<>>

PopCall(c, m, t) ==
    /\ Idle(c)
    /\ IF Blocks(store, t)
       THEN /\ pc' = [pc EXCEPT ![c] = "wait"]
            /\ frame' = [frame EXCEPT ![c] = [NoFrame EXCEPT !.cls = "RedisQueue", !.m = m,
                                              !.t = t, !.before = store]]
            /\ UNCHANGED <<store, last, popped>>
       ELSE /\ store' = PopCmd(store, m, t).list
            /\ popped' = Delivered(PopCmd(store, m, t).reply)
            /\ Complete(c, Call(c, "RedisQueue", m, "", 0, t, <<>>,
                                PopCmd(store, m, t).reply, store))
    /\ UNCHANGED pushed

RedisQueue_pop(c, t) == PopCall(c, "pop", t)

RedisQueue_popleft(c, t) == PopCall(c, "popleft", t)

\* A blocked RedisQueue.pop / popleft that was served returns the item.
RedisQueue_pop_return(c) ==
    /\ pc[c] = "return"
    /\ Complete(c, FrameCall(c, frame[c], frame[c].item))
    /\ UNCHANGED <<store, pushed, popped>>

\* A bug: a timeout of 0 expires like any other.
Timeout_zero_expires(c) ==
    LET f == frame[c]
    IN  /\ pc[c] = "wait"
        /\ f.t >= 0
        /\ IF f.cls = "ExclusiveQueue"
           THEN /\ pc' = [pc EXCEPT ![c] = "remove"]
                /\ frame' = [frame EXCEPT ![c] = [f EXCEPT !.item = PyNone]]
                /\ last' = last
           ELSE Complete(c, FrameCall(c, f, PyNone))
        /\ UNCHANGED <<store, pushed, popped>>

\* The timeout of a blocked brpop / blpop expires: the reply is None.  A
\* timeout of 0 never expires.
Timeout(c) ==
    LET f == frame[c]
    IN  /\ pc[c] = "wait"
        /\ f.t > 0
        /\ IF f.cls = "ExclusiveQueue"
           THEN /\ pc' = [pc EXCEPT ![c] = "remove"]
                /\ frame' = [frame EXCEPT ![c] = [f EXCEPT !.item = PyNone]]
                /\ last' = last
           ELSE Complete(c, FrameCall(c, f, PyNone))
        /\ UNCHANGED <<store, pushed, popped>>

RedisQueue_remove(c, cls, value) ==
    /\ Idle(c)
    /\ store' = lrem(store, PyStr(value)).list
    /\ Complete(c, Call(c, cls, "remove", value, 0, NoTimeout, <<>>,
                        IF lrem(store, PyStr(value)).reply = 0
                        THEN Raise("ValueError") ELSE PyNone, store))
    /\ UNCHANGED <<pushed, popped>>

RedisQueue_rotate(c, cls) ==
    /\ Idle(c)
    /\ store' = poppush(store).list
    /\ Complete(c, Call(c, cls, "rotate", "", 0, NoTimeout, <<>>, PyNone, store))
    /\ UNCHANGED <<pushed, popped>>

\* A bug: only the head of the list is looked at.
contains_head(l, item) == \E k \in 1..Len(lrange(l, 0, 0)) : lrange(l, 0, 0)[k] = item

\* A bug: the test always answers absent.
contains_never(l, item) == FALSE

\* item in members, over the full range of the list.
contains(l, item) == \E k \in 1..Len(lrange(l, 0, -1)) : lrange(l, 0, -1)[k] = item

RedisQueue_contains(c, cls, item) ==
    /\ Idle(c)
    /\ Complete(c, Call(c, cls, "__contains__", item, 0, NoTimeout, <<>>,
                        PyBool(contains(store, item)), store))
    /\ UNCHANGED <<store, pushed, popped>>

\* A bug: the length is answered from a copy of the list that is one call old.
RedisQueue_len_cached(c, cls) ==
    /\ Idle(c)
    /\ Complete(c, Call(c, cls, "__len__", "", 0, NoTimeout, <<>>,
                        PyInt(llen(last.before)), store))
    /\ UNCHANGED <<store, pushed, popped>>

RedisQueue_len(c, cls) ==
    /\ Idle(c)
    /\ Complete(c, Call(c, cls, "__len__", "", 0, NoTimeout, <<>>, PyInt(llen(store)), store))
    /\ UNCHANGED <<store, pushed, popped>>

RedisQueue_getitem(c, cls, key) ==
    /\ Idle(c)
    /\ Complete(c, Call(c, cls, "__getitem__", "", key, NoTimeout, <<>>, lindex(store, key), store))
    /\ UNCHANGED <<store, pushed, popped>>

RedisQueue_setitem(c, cls, key, value) ==
    /\ Idle(c)
    /\ store' = lset(store, key, PyStr(value)).list
    /\ Complete(c, Call(c, cls, "__setitem__", value, key, NoTimeout, <<>>,
                        IF lset(store, key, PyStr(value)).ok
                        THEN PyNone ELSE Raise("IndexError"), store))
    /\ UNCHANGED <<pushed, popped>>

\* __init__ keeps the connection and the key in the new instance and sends
\* nothing: caller c, who had no instance, now has one.
RedisQueue_init(c) ==
    /\ pc[c] = "none"
    /\ pc' = [pc EXCEPT ![c] = "idle"]
    /\ UNCHANGED <<store, frame, last, pushed, popped>>

\* Caller c lets go of its instance; the class has no finaliser.
RedisQueue_drop(c) ==
    /\ Idle(c)
    /\ pc' = [pc EXCEPT ![c] = "none"]
    /\ UNCHANGED <<store, frame, last, pushed, popped>>

\* members = lrange(key, 0, -1); return iter(members): the whole list is
\* fetched by the one command, and the caller then walks its own copy.
RedisQueue_iter(c, cls) ==
    /\ Idle(c)
    /\ pc' = [pc EXCEPT ![c] = "walk"]
    /\ frame' = [frame EXCEPT ![c] = [NoFrame EXCEPT !.cls = cls, !.m = "__iter__",
                                      !.rest = lrange(store, 0, -1), !.before = store]]
    /\ UNCHANGED <<store, last, pushed, popped>>

\* A bug: every step of the walk reads the list as it is now.
RedisQueue_iter_next_live(c) ==
    LET f == frame[c]
        k == Len(f.xs) + 1
    IN  /\ pc[c] = "walk"
        /\ IF k > Len(store)
           THEN Complete(c, Call(c, f.cls, "__iter__", "", 0, NoTimeout, <<>>,
                                 PyList(f.xs), f.before))
           ELSE /\ pc' = pc
                /\ frame' = [frame EXCEPT ![c] = [f EXCEPT !.xs = Append(f.xs, store[k])]]
                /\ last' = last
        /\ UNCHANGED <<store, pushed, popped>>

\* next() on the iterator: the next member of the copy (kept in xs once
\* yielded), or the end of the iteration, whose result is what was yielded.
RedisQueue_iter_next(c) ==
    LET f == frame[c]
    IN  /\ pc[c] = "walk"
        /\ IF f.rest = <<>>
           THEN Complete(c, Call(c, f.cls, "__iter__", "", 0, NoTimeout, <<>>,
                                 PyList(f.xs), f.before))
           ELSE /\ pc' = pc
                /\ frame' = [frame EXCEPT ![c] = [f EXCEPT !.xs = Append(f.xs, Head(f.rest)),
                                                           !.rest = Tail(f.rest)]]
                /\ last' = last
        /\ UNCHANGED <<store, pushed, popped>>

(***************************************************************************)
(* ExclusiveQueue                                                          *)
(***************************************************************************)
\* if x not in self: the membership test.  When x is absent the push is the
\* next command; when it is present the method is over.
ExclusiveAppendCall(c, m, x) ==
    /\ Idle(c)
    /\ IF contains(store, x)
       THEN Complete(c, Call(c, "ExclusiveQueue", m, x, 0, NoTimeout, <<>>, PyNone, store))
       ELSE /\ pc' = [pc EXCEPT ![c] = "push"]
            /\ frame' = [frame EXCEPT ![c] = [NoFrame EXCEPT !.cls = "ExclusiveQueue",
                                              !.m = m, !.x = x, !.before = store]]
            /\ last' = last
    /\ UNCHANGED <<store, pushed, popped>>

ExclusiveQueue_append(c, x) == ExclusiveAppendCall(c, "append", x)

ExclusiveQueue_appendleft(c, x) == ExclusiveAppendCall(c, "appendleft", x)

\* The membership test of self.append(item) inside the loop of extend /
\* extendleft, self being an ExclusiveQueue.
ExclusiveQueue_extend_step(c) ==
    LET f == frame[c]
        item == Head(f.rest)
        more == Tail(f.rest) # <<>>
    IN  /\ pc[c] = "extend"
        /\ f.cls = "ExclusiveQueue"
        /\ IF contains(store, item)
           THEN IF more
                THEN /\ pc' = pc
                     /\ frame' = [frame EXCEPT ![c] = [f EXCEPT !.rest = Tail(f.rest)]]
                     /\ last' = last
                ELSE Complete(c, FrameCall(c, f, PyNone))
           ELSE /\ pc' = [pc EXCEPT ![c] = "push"]
                /\ frame' = [frame EXCEPT ![c] = [f EXCEPT !.x = item, !.rest = Tail(f.rest)]]
                /\ last' = last
        /\ UNCHANGED <<store, pushed, popped>>

\* self.redis_conn.rpush / lpush of ExclusiveQueue.append / appendleft, after
\* the membership test found x absent.
ExclusiveQueue_push(c) ==
    LET f == frame[c]
        l == IF Left(f.m) THEN lpush(store, PyStr(f.x)) ELSE rpush(store, PyStr(f.x))
        more == f.rest # <<>>
    IN  /\ pc[c] = "push"
        /\ PushCmd(c, l, encode(PyStr(f.x)),
                   IF more THEN "extend" ELSE "idle",
                   IF more THEN [f EXCEPT !.x = ""] ELSE NoFrame)
        /\ last' = IF more THEN last
                   ELSE FrameCall(c, [f EXCEPT !.x = IF f.xs = <<>> THEN f.x ELSE ""], PyNone)

\* item = super(ExclusiveQueue, self).pop(timeout) / popleft(timeout)
ExclusivePopCall(c, m, t) ==
    /\ Idle(c)
    /\ IF Blocks(store, t)
       THEN /\ pc' = [pc EXCEPT ![c] = "wait"]
            /\ frame' = [frame EXCEPT ![c] = [NoFrame EXCEPT !.cls = "ExclusiveQueue", !.m = m,
                                              !.t = t, !.before = store]]
            /\ UNCHANGED <<store, popped>>
       ELSE /\ store' = PopCmd(store, m, t).list
            /\ popped' = Delivered(PopCmd(store, m, t).reply)
            /\ pc' = [pc EXCEPT ![c] = "remove"]
            /\ frame' = [frame EXCEPT ![c] = [NoFrame EXCEPT !.cls = "ExclusiveQueue", !.m = m,
                                              !.t = t, !.before = store,
                                              !.item = PopCmd(store, m, t).reply]]
    /\ UNCHANGED <<last, pushed>>

ExclusiveQueue_pop(c, t) == ExclusivePopCall(c, "pop", t)

ExclusiveQueue_popleft(c, t) == ExclusivePopCall(c, "popleft", t)

\* A bug: the ValueError of remove is not caught.
ExclusiveQueue_pop_remove_raises(c) ==
    /\ pc[c] = "remove"
    /\ store' = lrem(store, frame[c].item).list
    /\ Complete(c, FrameCall(c, frame[c],
                             IF lrem(store, frame[c].item).reply = 0
                             THEN Raise("ValueError") ELSE frame[c].item))
    /\ UNCHANGED <<pushed, popped>>

\* A bug: the popped item is returned without the cleanup.
ExclusiveQueue_pop_remove_keeps(c) ==
    /\ pc[c] = "remove"
    /\ store' = store
    /\ Complete(c, FrameCall(c, frame[c], frame[c].item))
    /\ UNCHANGED <<pushed, popped>>

\* try: self.remove(item) except ValueError: pass; return item
ExclusiveQueue_pop_remove(c) ==
    /\ pc[c] = "remove"
    /\ store' = lrem(store, frame[c].item).list
    /\ Complete(c, FrameCall(c, frame[c], frame[c].item))
    /\ UNCHANGED <<pushed, popped>>

(***************************************************************************)
(* Specifications                                                          *)
(***************************************************************************)
Init ==
    /\ store = <<>>
    /\ pc = [c \in Callers |-> "idle"]
    /\ frame = [c \in Callers |-> NoFrame]
    /\ last = NoCall
    /\ pushed = <<>>
    /\ popped = <<>>

\* The list holds whatever earlier pushes left in it.
SeqsUpTo(n) == UNION {[1..k -> Values] : k \in 0..n}

InitAny ==
    /\ store \in SeqsUpTo(MaxInit)
    /\ pc = [c \in Callers |-> "idle"]
    /\ frame = [c \in Callers |-> NoFrame]
    /\ last = NoCall
    /\ pushed = store
    /\ popped = <<>>

Iterables == UNION {[1..k -> FewValues] : k \in 0..MaxIter}

\* The iterables of at most two items.
PairIterables == {xs \in Iterables : Len(xs) <= 2}

Indices == (0 - MaxIndex - 1)..MaxIndex

\* Concurrent callers of a RedisQueue that push and pop single elements
\* without a timeout.
NextDeque ==
    \E c \in Callers :
        \/ \E x \in Values : RedisQueue_append(c, x)
        \/ \E x \in Values : RedisQueue_appendleft(c, x)
        \/ RedisQueue_pop(c, NoTimeout)
        \/ RedisQueue_popleft(c, NoTimeout)

SpecDeque == Init /\ [][NextDeque]_vars

\* One caller of an ExclusiveQueue that only appends.
NextExclAppend ==
    \/ \E x \in Values : ExclusiveQueue_append(1, x)
    \/ \E x \in Values : ExclusiveQueue_appendleft(1, x)
    \/ ExclusiveQueue_push(1)

SpecExclAppend == Init /\ [][NextExclAppend]_vars

\* One caller popping from an ExclusiveQueue whose list holds anything.
NextExclPop ==
    \/ \E t \in Timeouts : ExclusiveQueue_pop(1, t)
    \/ \E t \in Timeouts : ExclusiveQueue_popleft(1, t)
    \/ ExclusiveQueue_pop_remove(1)
    \/ Timeout(1)

SpecExclPop == InitAny /\ [][NextExclPop]_vars

\* One caller using every mutating method of an ExclusiveQueue.
NextExclAll ==
    \/ \E x \in FewValues : ExclusiveQueue_append(1, x)
    \/ \E x \in FewValues : ExclusiveQueue_appendleft(1, x)
    \/ \E xs \in PairIterables : RedisQueue_extend(1, "ExclusiveQueue", xs)
    \/ \E xs \in PairIterables : RedisQueue_extendleft(1, "ExclusiveQueue", xs)
    \/ ExclusiveQueue_extend_step(1)
    \/ ExclusiveQueue_push(1)
    \/ \E t \in Timeouts : ExclusiveQueue_pop(1, t)
    \/ \E t \in Timeouts : ExclusiveQueue_popleft(1, t)
    \/ ExclusiveQueue_pop_remove(1)
    \/ Timeout(1)
    \/ \E x \in FewValues : RedisQueue_remove(1, "ExclusiveQueue", x)
    \/ RedisQueue_rotate(1, "ExclusiveQueue")
    \/ RedisQueue_clear(1, "ExclusiveQueue")
    \/ \E i \in Indices, x \in FewValues : RedisQueue_setitem(1, "ExclusiveQueue", i, x)

SpecExclAll == Init /\ [][NextExclAll]_vars

\* Concurrent callers of ExclusiveQueue.append / appendleft.
NextExclRace ==
    \E c \in Callers :
        \/ \E x \in FewValues : ExclusiveQueue_append(c, x)
        \/ \E x \in FewValues : ExclusiveQueue_appendleft(c, x)
        \/ ExclusiveQueue_push(c)

SpecExclRace == Init /\ [][NextExclRace]_vars

\* One caller that appends to a RedisQueue and reads it back.
NextAppendIter ==
    \/ \E x \in Values : RedisQueue_append(1, x)
    \/ RedisQueue_iter(1, "RedisQueue")
    \/ RedisQueue_iter_next(1)
    \/ RedisQueue_len(1, "RedisQueue")

SpecAppendIter == Init /\ [][NextAppendIter]_vars

\* One caller that pushes to and pops from a RedisQueue.
NextAppendPop ==
    \/ \E x \in Values : RedisQueue_append(1, x)
    \/ \E x \in Values : RedisQueue_appendleft(1, x)
    \/ \E t \in Timeouts : RedisQueue_pop(1, t)
    \/ \E t \in Timeouts : RedisQueue_popleft(1, t)
    \/ Timeout(1)

SpecAppendPop == Init /\ [][NextAppendPop]_vars

\* Callers that append to a RedisQueue and remove values from it.
NextRemove ==
    \E c \in Callers :
        \/ \E x \in Values : RedisQueue_append(c, x)
        \/ \E x \in Values : RedisQueue_remove(c, "RedisQueue", x)

SpecRemove == Init /\ [][NextRemove]_vars

\* One caller that appends to a RedisQueue and reads and writes by index.
NextIndex ==
    \/ \E x \in FewValues : RedisQueue_append(1, x)
    \/ \E i \in Indices, x \in FewValues : RedisQueue_setitem(1, "RedisQueue", i, x)
    \/ \E i \in Indices : RedisQueue_getitem(1, "RedisQueue", i)

SpecIndex == Init /\ [][NextIndex]_vars

\* Callers that append to a RedisQueue, rotate it and read its length.
NextRotate ==
    \E c \in Callers :
        \/ \E x \in Values : RedisQueue_append(c, x)
        \/ RedisQueue_rotate(c, "RedisQueue")
        \/ RedisQueue_len(c, "RedisQueue")

SpecRotate == Init /\ [][NextRotate]_vars

\* One caller that appends to the list and pops from it through either class,
\* with and without a timeout.  The server lets a positive timeout expire and
\* the caller goes on with its method.
NextEmptyPop ==
    \/ \E x \in FewValues : RedisQueue_append(1, x)
    \/ \E t \in Timeouts : RedisQueue_pop(1, t)
    \/ \E t \in Timeouts : RedisQueue_popleft(1, t)
    \/ \E t \in Timeouts : ExclusiveQueue_pop(1, t)
    \/ \E t \in Timeouts : ExclusiveQueue_popleft(1, t)
    \/ ExclusiveQueue_pop_remove(1)
    \/ Timeout(1)

SpecEmptyPop ==
    /\ Init
    /\ [][NextEmptyPop]_vars
    /\ WF_vars(Timeout(1))
    /\ WF_vars(ExclusiveQueue_pop_remove(1))

\* Concurrent callers of a RedisQueue that append and pop, with and without a
\* timeout.
NextBlocking ==
    \E c \in Callers :
        \/ \E x \in FewValues : RedisQueue_append(c, x)
        \/ \E t \in Timeouts : RedisQueue_pop(c, t)
        \/ \E t \in Timeouts : RedisQueue_popleft(c, t)
        \/ RedisQueue_pop_return(c)
        \/ Timeout(c)

SpecBlocking == Init /\ [][NextBlocking]_vars

\* One caller that extends a RedisQueue at either end, over a store whose
\* push may fail.
NextExtend ==
    \/ \E xs \in Iterables : RedisQueue_extend(1, "RedisQueue", xs)
    \/ \E xs \in Iterables : RedisQueue_extendleft(1, "RedisQueue", xs)
    \/ RedisQueue_extend_step(1)
    \/ RedisQueue_extend_fails(1)

SpecExtend == Init /\ [][NextExtend]_vars

\* Callers that iterate over a RedisQueue while they and others append, pop
\* and remove.
NextIter ==
    \E c \in Callers :
        \/ \E x \in FewValues : RedisQueue_append(c, x)
        \/ RedisQueue_popleft(c, NoTimeout)
        \/ \E x \in FewValues : RedisQueue_remove(c, "RedisQueue", x)
        \/ RedisQueue_iter(c, "RedisQueue")
        \/ RedisQueue_iter_next(c)

SpecIter == Init /\ [][NextIter]_vars

\* No caller has an instance yet.
InitViews ==
    /\ store = <<>>
    /\ pc = [c \in Callers |-> "none"]
    /\ frame = [c \in Callers |-> NoFrame]
    /\ last = NoCall
    /\ pushed = store
    /\ popped = <<>>

\* Every caller builds its own RedisQueue on the one key, writes and reads
\* through it, and drops it.
NextViews ==
    \E c \in Callers :
        \/ RedisQueue_init(c)
        \/ RedisQueue_drop(c)
        \/ \E x \in FewValues : RedisQueue_append(c, x)
        \/ RedisQueue_popleft(c, NoTimeout)
        \/ \E x \in FewValues : RedisQueue_remove(c, "RedisQueue", x)
        \/ RedisQueue_len(c, "RedisQueue")
        \/ \E i \in Indices : RedisQueue_getitem(c, "RedisQueue", i)
        \/ \E x \in FewValues : RedisQueue_contains(c, "RedisQueue", x)
        \/ RedisQueue_iter(c, "RedisQueue")
        \/ RedisQueue_iter_next(c)

SpecViews == InitViews /\ [][NextViews]_vars

\* One producer (caller 1) that appends to an ExclusiveQueue and one
\* consumer (caller 2) that pops from it without a timeout.
NextExclProdCons ==
    \/ \E x \in FewValues : ExclusiveQueue_append(1, x)
    \/ ExclusiveQueue_push(1)
    \/ ExclusiveQueue_pop(2, NoTimeout)
    \/ ExclusiveQueue_popleft(2, NoTimeout)
    \/ ExclusiveQueue_pop_remove(2)

SpecExclProdCons == Init /\ [][NextExclProdCons]_vars

\* One producer (caller 1) that only appends to a RedisQueue and one
\* consumer (caller 2) that only pops from its head without a timeout.
NextFifo ==
    \/ \E x \in Values : RedisQueue_append(1, x)
    \/ RedisQueue_popleft(2, NoTimeout)

SpecFifo == Init /\ [][NextFifo]_vars

\* Caller 1 extends a RedisQueue while caller 2 appends to it and reads it.
NextExtendRace ==
    \/ \E xs \in Iterables : RedisQueue_extend(1, "RedisQueue", xs)
    \/ RedisQueue_extend_step(1)
    \/ \E x \in Values : RedisQueue_append(2, x)
    \/ RedisQueue_iter(2, "RedisQueue")
    \/ RedisQueue_iter_next(2)

SpecExtendRace == Init /\ [][NextExtendRace]_vars

(***************************************************************************)
(* Properties                                                              *)
(***************************************************************************)
Pops == {"pop", "popleft"}

Others(l, x) == SelectSeq(l, LAMBDA e : e # x)

\* The position 1..Len(l) an index i names, counting a negative i from the tail.
PosOf(l, i) == IF i < 0 THEN Len(l) + i + 1 ELSE i + 1

\* C1: with concurrent callers appending, appendlefting, popping and
\* poplefting without a timeout, the values pushed so far are exactly those
\* still in the list plus those the pops returned, occurrence by occurrence,
\* and what a pop returns is the one element the store took out for it.
C1_NothingLostNothingTwice ==
    /\ \A v \in Values : Count(pushed, v) = Count(store, v) + Count(popped, v)
    /\ Len(pushed) = Len(store) + Len(popped)
    /\ (last.m \in Pops /\ last.ret # PyNone) =>
           /\ popped # <<>>
           /\ last.ret = PyStr(popped[Len(popped)])
           /\ Len(store) = Len(last.before) - 1

\* Two pops have each returned an "a", and the list still holds something.
C1_Witness ==
    /\ last.m = "popleft"
    /\ last.c = 2
    /\ last.ret = PyStr("a")
    /\ popped = <<"a", "a">>
    /\ store # <<>>

\* C2: one caller that only calls ExclusiveQueue.append / appendleft on a
\* list that began empty never has a value twice in the list, and an append
\* of a value already present leaves the list as it was.
C2_AppendKeepsValuesUnique ==
    /\ \A v \in Values : Count(store, v) <= 1
    /\ (last.cls = "ExclusiveQueue" /\ last.m \in {"append", "appendleft"}
        /\ Count(last.before, last.x) > 0) => store = last.before
    /\ (last.cls = "ExclusiveQueue" /\ last.m \in {"append", "appendleft"}
        /\ Count(last.before, last.x) = 0) => Len(store) = Len(last.before) + 1

\* append a, append b, append a has left [a, b].
C2_Witness ==
    /\ last.cls = "ExclusiveQueue"
    /\ last.m = "append"
    /\ last.x = "a"
    /\ last.before = <<"a", "b">>
    /\ pushed = <<"a", "b">>
    /\ store = <<"a", "b">>

\* C3: whatever the list held and whatever the timeout, once
\* ExclusiveQueue.pop / popleft has returned an element, that value is no
\* longer in the list.
C3_ReturnedValueAbsent ==
    (pc[1] = "idle" /\ last.cls = "ExclusiveQueue" /\ last.m \in Pops /\ last.ret # PyNone)
        => ~contains(store, last.ret.s)

\* C4: an ExclusiveQueue that began empty and is used by one caller through
\* its own methods never holds a value twice.
C4_EachValueAtMostOnce == \A v \in Values : Count(store, v) <= 1

\* C5: a caller of ExclusiveQueue.append pushes x whenever its own membership
\* test found x absent, whatever has been pushed since; so a value can be in
\* the list once per concurrent caller, and no more often than that.
C5_OneCopyPerCaller ==
    /\ \A v \in Values : Count(store, v) <= NumCallers
    /\ \A c \in Callers : pc[c] = "push" => Count(frame[c].before, frame[c].x) = 0
    /\ (last.m \in {"append", "appendleft"} /\ Count(last.before, last.x) = 0)
           => Count(store, last.x) >= 1

\* Both callers found "a" absent and both pushed it.
C5_Witness ==
    /\ Count(store, "a") = 2
    /\ last.cls = "ExclusiveQueue"
    /\ last.m = "append"
    /\ last.x = "a"
    /\ Count(last.before, "a") = 0
    /\ \A c \in Callers : pc[c] = "idle"

\* C6: after append(v1), ..., append(vn) on an empty RedisQueue, with no
\* other writer, an iteration yields v1, ..., vn in that order and the
\* length is n.
C6_IterationYieldsAppended ==
    /\ last.m = "__iter__" => last.ret = PyList(pushed)
    /\ last.m = "__len__" => last.ret = PyInt(Len(pushed))

\* The iteration after append a, append b, append a.
C6_Witness ==
    /\ last.m = "__iter__"
    /\ last.ret = PyList(<<"a", "b", "a">>)

\* C7: with no other writer, a pop() that follows append(x) returns x and
\* leaves the list as it was before the append; so does a popleft() that
\* follows appendleft(x).
C7_AppendThenPop ==
    [][/\ (last.m = "append" /\ last'.m = "pop" /\ last'.t = NoTimeout) =>
              (last'.ret = PyStr(last.x) /\ store' = last.before)
       /\ (last.m = "appendleft" /\ last'.m = "popleft" /\ last'.t = NoTimeout) =>
              (last'.ret = PyStr(last.x) /\ store' = last.before)]_vars

\* b was pushed, then a appended, and the one pop since returned a and left [b].
C7_Witness ==
    /\ last.m = "pop"
    /\ last.t = NoTimeout
    /\ last.ret = PyStr("a")
    /\ last.before = <<"b", "a">>
    /\ pushed = <<"b", "a">>
    /\ popped = <<"a">>
    /\ store = <<"b">>

\* C8: remove(x) on a list that holds x takes every x out, keeps the other
\* elements in their order and raises nothing; on a list without x it raises
\* ValueError and leaves the list as it was.
C8_RemoveAllOrValueError ==
    last.m = "remove" =>
        IF Count(last.before, last.x) > 0
        THEN /\ last.ret = PyNone
             /\ Count(store, last.x) = 0
             /\ store = Others(last.before, last.x)
             /\ Len(store) = Len(last.before) - Count(last.before, last.x)
        ELSE /\ last.ret = Raise("ValueError")
             /\ store = last.before

\* remove a on [a, b, a, c] has left [b, c].
C8_Witness ==
    /\ last.m = "remove"
    /\ last.x = "a"
    /\ last.ret = PyNone
    /\ last.before = <<"a", "b", "a", "c">>
    /\ store = <<"b", "c">>

\* C9: an indexed write at an index at or beyond the length raises IndexError
\* and changes nothing; at a valid index, negative ones counting from the
\* tail, it changes that one position and nothing else, and an indexed read
\* at the same index that follows it returns the value written.
C9_IndexedWrite ==
    /\ [](last.m = "__setitem__" =>
            IF last.i >= Len(last.before)
            THEN last.ret = Raise("IndexError") /\ store = last.before
            ELSE (last.i >= 0 - Len(last.before)) =>
                     /\ last.ret = PyNone
                     /\ Len(store) = Len(last.before)
                     /\ store[PosOf(store, last.i)] = last.x
                     /\ \A k \in 1..Len(store) :
                            k # PosOf(store, last.i) => store[k] = last.before[k])
    /\ [][(last.m = "__setitem__" /\ last.ret = PyNone
           /\ last'.m = "__getitem__" /\ last'.i = last.i)
              => last'.ret = PyStr(last.x)]_vars

\* Only a was ever pushed; a write put b in the tail and the read at -1 returned it.
C9_Witness ==
    /\ last.m = "__getitem__"
    /\ last.i = 0 - 1
    /\ last.ret = PyStr("b")
    /\ last.before = <<"a", "b">>
    /\ pushed = <<"a", "a">>

\* C10: rotate() moves the tail of a non-empty list to its head in the one
\* command, so length and contents are kept and a reader of the length sees
\* every element that was pushed; on an empty list it does nothing.
C10_RotateOneStep ==
    /\ last.m = "rotate" =>
           IF last.before = <<>> THEN store = <<>>
           ELSE /\ store = <<last.before[Len(last.before)]>> \o Front(last.before)
                /\ Len(store) = Len(last.before)
                /\ \A v \in Values : Count(store, v) = Count(last.before, v)
    /\ last.m = "__len__" => last.ret = PyInt(Len(pushed))
    /\ Len(store) = Len(pushed)

\* rotate on [a, b, c] has left [c, a, b].
C10_Witness ==
    /\ last.m = "rotate"
    /\ last.before = <<"a", "b", "c">>
    /\ store = <<"c", "a", "b">>

C12_ZeroTimeoutNeverWaits ==
    \A c \in Callers : ~(pc[c] = "wait" /\ frame[c].t = 0)

\* C12, amended: pop(timeout=0) / popleft(timeout=0) on an empty list wait
\* until some caller pushes an element and return that element, never None;
\* only a call without a timeout returns None at once on an empty list.
C12_ZeroTimeoutBlocks ==
    /\ []((last.m \in Pops /\ last.t = 0) => last.ret # PyNone)
    /\ []((last.m \in Pops /\ last.t = NoTimeout /\ last.before = <<>>) => last.ret = PyNone)
    /\ [][\A c \in Callers :
            (pc[c] = "wait" /\ frame[c].t = 0 /\ pc'[c] # "wait") =>
                /\ Len(pushed') = Len(pushed) + 1
                /\ pc'[c] = "return"
                /\ frame'[c].item = PyPair(KEY, pushed'[Len(pushed')])]_vars

\* pop(timeout=0) found the list empty and returned the "a" pushed later.
C12_Witness ==
    /\ last.m = "pop"
    /\ last.t = 0
    /\ last.before = <<>>
    /\ last.ret = PyPair(KEY, "a")
    /\ pushed = <<"a">>
    /\ store = <<>>

\* C17: a pop / popleft with a positive timeout that waits on the empty list
\* is handed the element another caller appends before the timeout expires:
\* the push takes no place in the list, the waiter gets the (key, value)
\* pair and returns it, not None.
C17_BlockedPopIsServed ==
    /\ [](Waiters # {} => store = <<>>)
    /\ [][(Waiters # {} /\ pushed' # pushed) =>
            /\ store' = <<>>
            /\ popped' = Append(popped, pushed'[Len(pushed')])
            /\ \E w \in Waiters :
                /\ pc'[w] = "return"
                /\ frame'[w].item = PyPair(KEY, pushed'[Len(pushed')])]_vars
    /\ [][\A c \in Callers :
            (pc[c] = "return" /\ pc'[c] = "idle") =>
                (last'.c = c /\ last'.ret = frame[c].item /\ last'.ret # PyNone)]_vars

\* Caller 1's popleft(timeout=1) waited on the empty list and returned the
\* pair for the "b" that was appended meanwhile.
C17_Witness ==
    /\ last.c = 1
    /\ last.m = "popleft"
    /\ last.t = 1
    /\ last.before = <<>>
    /\ last.ret = PyPair(KEY, "b")
    /\ pushed = <<"b">>
    /\ popped = <<"b">>
    /\ store = <<>>

Reverse(l) == [k \in 1..Len(l) |-> l[Len(l) + 1 - k]]

\* C13: when the store fails on a push of extend(xs) / extendleft(xs), the
\* call ends there with that error: the values before the failing one are in
\* the list (at the tail in input order, at the head in reverse), the failing
\* one and those after it are not, and nothing is taken back or tried again.
C13_ExtendStopsAtFirstFailure ==
    /\ []((pc[1] = "idle" /\ last.ret = Raise("StoreError")) =>
            /\ last.i < Len(last.xs)
            /\ last.m = "extend" => store = last.before \o SubSeq(last.xs, 1, last.i)
            /\ last.m = "extendleft" =>
                   store = Reverse(SubSeq(last.xs, 1, last.i)) \o last.before)
    /\ [](Len(store) = Len(pushed))
    /\ [][(pc[1] = "extend" /\ pushed' = pushed) =>
            /\ pc'[1] = "idle"
            /\ last'.ret = Raise("StoreError")
            /\ last'.i = Done(frame[1])
            /\ store' = store]_vars

\* extend([a, b, a]) on [b] failed on its third push and left [b, a, b].
C13_Witness ==
    /\ pc[1] = "idle"
    /\ last.m = "extend"
    /\ last.xs = <<"a", "b", "a">>
    /\ last.ret = Raise("StoreError")
    /\ last.i = 2
    /\ last.before = <<"b">>
    /\ store = <<"b", "a", "b">>

\* C14: with no other writer, extend([x1, ..., xn]) on a list S leaves S
\* followed by x1, ..., xn, and extendleft([x1, ..., xn]) leaves xn, ..., x1
\* followed by S.
C14_ExtendOrder ==
    (pc[1] = "idle" /\ last.ret = PyNone) =>
        /\ last.m = "extend" => store = last.before \o last.xs
        /\ last.m = "extendleft" => store = Reverse(last.xs) \o last.before

\* extendleft([a, b]) on [a] has left [b, a, a].
C14_Witness ==
    /\ pc[1] = "idle"
    /\ last.m = "extendleft"
    /\ last.xs = <<"a", "b">>
    /\ last.ret = PyNone
    /\ last.before = <<"a">>
    /\ store = <<"b", "a", "a">>

\* C15: an iteration yields the list as it was at the one fetch that began
\* it, whatever other callers push, pop or remove while it is walked; it
\* ends after as many steps as that list had elements, and every iteration
\* begins with a fetch of its own.
C15_IterationIsSnapshot ==
    /\ [](last.m = "__iter__" => last.ret = PyList(last.before))
    /\ [](\A c \in Callers : pc[c] = "walk" =>
              frame[c].xs \o frame[c].rest = frame[c].before)
    /\ [][\A c \in Callers :
            (pc[c] = "idle" /\ pc'[c] = "walk") =>
                (frame'[c].before = store /\ frame'[c].rest = store /\ frame'[c].xs = <<>>)]_vars
    /\ [][\A c \in Callers :
            (pc[c] = "walk" /\ pc'[c] = "walk" /\ frame'[c] # frame[c]) =>
                Len(frame'[c].rest) = Len(frame[c].rest) - 1]_vars

\* The iteration yielded [a, b], the list of its fetch, though the list had
\* lost its head before the walk was over.
C15_Witness ==
    /\ last.m = "__iter__"
    /\ last.before = <<"a", "b">>
    /\ last.ret = PyList(<<"a", "b">>)
    /\ store = <<"b">>
    /\ popped = <<"a">>

\* The list a write call leaves, told from the list it found.
After(call) ==
    CASE call.m = "append" -> call.before \o <<call.x>>
      [] call.m = "popleft" -> IF call.before = <<>> THEN <<>> ELSE Tail(call.before)
      [] call.m = "remove" -> SelectSeq(call.before, LAMBDA e : e # call.x)

Writes == {"append", "popleft", "remove"}

\* What a read call answers on the list l.
Answer(call, l) ==
    CASE call.m = "__len__" -> PyInt(Len(l))
      [] call.m = "__getitem__" ->
            IF Position(l, call.i) = 0 THEN PyNone ELSE PyStr(l[Position(l, call.i)])
      [] call.m = "__contains__" -> PyBool(\E k \in 1..Len(l) : l[k] = call.x)

Reads == {"__len__", "__getitem__", "__contains__"}

\* C16: instances on the same key are views of the one list: a length, an
\* indexed read, a membership test or the fetch of an iteration made through
\* one instance right after a write through another instance answers on the
\* list that write left; building or dropping an instance leaves the list as
\* it is.
C16_InstancesAreViews ==
    /\ [][(last' # last /\ last'.m \in Reads /\ last.m \in Writes /\ last'.c # last.c) =>
              last'.ret = Answer(last', After(last))]_vars
    /\ [][\A c \in Callers :
            (pc[c] = "idle" /\ pc'[c] = "walk" /\ last.m \in Writes /\ last.c # c) =>
                frame'[c].rest = After(last)]_vars
    /\ [][\A c \in Callers :
            ((pc[c] = "none") # (pc'[c] = "none")) => store' = store]_vars

\* a and b were appended, caller 1 read the length 2 through its instance,
\* and caller 2 holds no instance: the list is still [a, b].
C16_Witness ==
    /\ last.m = "__len__"
    /\ last.c = 1
    /\ last.ret = PyInt(2)
    /\ store = <<"a", "b">>
    /\ pushed = <<"a", "b">>
    /\ pc[2] = "none"
    /\ pc[1] = "idle"

\* The pushes of x that were neither returned by a pop nor are in the list.
Lost(x) == Count(pushed, x) - Count(popped, x) - Count(store, x)

Quiescent == \A c \in Callers : pc[c] = "idle"

\* C18 as stated: with one ExclusiveQueue producer and one consumer, whenever
\* no call is in progress every value was pushed as often as it was returned
\* by a pop plus the times it is in the list.
C18_NoPushLost == Quiescent => \A x \in FewValues : Lost(x) = 0

\* C18 amended: no value is returned or held more often than it was pushed;
\* the cleanup after a pop deletes the popped value wherever the list holds
\* it at that moment, a copy the producer pushed after the pop included, and
\* that copy is then lost; no other step loses a push.
C18_PushLostOnlyToCleanup ==
    /\ [](\A x \in FewValues : Lost(x) >= 0 /\ Count(store, x) <= 1)
    /\ [][\A x \in FewValues :
            (pc[2] = "remove" /\ pc'[2] = "idle" /\ frame[2].item = PyStr(x)) =>
                (Count(store', x) = 0 /\ Lost(x)' = Lost(x) + Count(store, x))]_vars
    /\ [][\A x \in FewValues :
            Lost(x)' # Lost(x) =>
                (pc[2] = "remove" /\ pc'[2] = "idle" /\ frame[2].item = PyStr(x))]_vars

\* a was pushed twice and popped once, the list is empty and no call is in
\* progress: the second push of a went to the cleanup of the pop.
C18_Witness ==
    /\ Quiescent
    /\ pushed = <<"a", "a">>
    /\ popped = <<"a">>
    /\ store = <<>>
    /\ Lost("a") = 1
    /\ last.m \in {"pop", "popleft"}
    /\ last.ret = PyStr("a")

\* C19: with one producer that only appends and one consumer that only pops
\* from the head without a timeout, the values the consumer has received
\* are, in order, the first of the values the producer appended; an empty
\* answer is given only on the empty list and receives nothing.
C19_Fifo ==
    /\ [](/\ Len(popped) <= Len(pushed)
          /\ popped = SubSeq(pushed, 1, Len(popped))
          /\ store = SubSeq(pushed, Len(popped) + 1, Len(pushed)))
    /\ [][(last' # last /\ last'.m = "popleft") =>
            IF store = <<>>
            THEN last'.ret = PyNone /\ popped' = popped
            ELSE last'.ret = PyStr(pushed[Len(popped) + 1]) /\
                 popped' = Append(popped, last'.ret.s)]_vars

\* a, b, c, a were appended and the consumer has received a, b, c, the last
\* of them by the call that has just returned.
C19_Witness ==
    /\ pushed = <<"a", "b", "c", "a">>
    /\ popped = <<"a", "b", "c">>
    /\ store = <<"a">>
    /\ last.m = "popleft"
    /\ last.ret = PyStr("c")

RECURSIVE IsSubseq(_, _)
\* s is l with some elements left out.
IsSubseq(s, l) ==
    IF s = <<>> THEN TRUE
    ELSE IF l = <<>> THEN FALSE
    ELSE IF Head(s) = Head(l) THEN IsSubseq(Tail(s), Tail(l))
    ELSE IsSubseq(s, Tail(l))

\* What was added to the list since the running extend of caller 1 began.
Added == SubSeq(store, Len(frame[1].before) + 1, Len(store))

\* C20: while caller 1 runs extend(xs) and another caller appends, the
\* values that extend has pushed are the first of xs, the values it has yet
\* to push are the others, and the pushed ones stand in the list in input
\* order behind what the list held when the extend began, other callers'
\* values possibly in between; when the extend returns all of xs stands so.
C20_ExtendKeepsOwnOrder ==
    /\ [](pc[1] = "extend" =>
            /\ frame[1].rest = SubSeq(frame[1].xs, Done(frame[1]) + 1, Len(frame[1].xs))
            /\ frame[1].rest # <<>>
            /\ SubSeq(store, 1, Len(frame[1].before)) = frame[1].before
            /\ IsSubseq(SubSeq(frame[1].xs, 1, Done(frame[1])), Added)
            /\ Len(Added) >= Done(frame[1]))
    /\ [][(pc[1] = "extend" /\ pc'[1] = "idle") =>
            /\ last'.m = "extend" /\ last'.xs = frame[1].xs
            /\ IsSubseq(frame[1].xs,
                        SubSeq(store', Len(frame[1].before) + 1, Len(store')))]_vars

\* extend([a, b, a]) has pushed a only, caller 2 has appended c behind it,
\* and caller 2's iteration has yielded [a, c].
C20_Witness ==
    /\ pc[1] = "extend"
    /\ frame[1].xs = <<"a", "b", "a">>
    /\ Done(frame[1]) = 1
    /\ store = <<"a", "c">>
    /\ last.m = "__iter__"
    /\ last.c = 2
    /\ last.ret = PyList(<<"a", "c">>)

=============================================================================
